---- MODULE Spec2Model ----
(***************************************************************************)
(* COT "install-helpers" command: COTInstallHelpers.run                    *)
(* (src/COT/install_helpers.py).  One run walks the five helper classes in *)
(* list order, probes each helper, records a report entry per helper,      *)
(* installs the missing ones unless verify_only is set, prints the report  *)
(* sorted by helper name and finally raises EnvironmentError when some     *)
(* installation failed and ignore_errors is not set.                       *)
(*                                                                         *)
(* The helper classes themselves (package COT.helpers) are not part of    *)
(* sources at hand: a helper's name, the probe behind helper.path and      *)
(* helper.version, and the possible outcomes of install_helper() are       *)
(* modelled from the specification (Detector, Installer Strategy Set).     *)
(* SpecDeps opens the install step up: install_helper() resolves the       *)
(* prerequisites of the helper and installs them before the helper, again  *)
(* after the specification (Dependency Resolver).                          *)
(*                                                                         *)
(* textwrap's wrapping of a report line to the terminal width is not       *)
(* modelled: a printed line is the argument of one print call.             *)
(***************************************************************************)
EXTENDS Integers, Sequences, FiniteSets, TLC

VARIABLES run, host, inst

vars == <<run, host, inst>>

(* ------------------------------------------------------------------ *)
(* Bounds of the model                                                 *)
(* ------------------------------------------------------------------ *)

\* Number of distinct version strings a helper may report.
NumVersions == 1

\* Number of distinct messages str(e) an installation failure may carry.
NumDetails == 1

\* Largest number of helpers missing from the host at the start of the
\* first of two consecutive runs (SpecTwice).
MaxAbsent == 1

(* ------------------------------------------------------------------ *)
(* Static data                                                         *)
(* ------------------------------------------------------------------ *)

\* The runs a behaviour may hold: Spec executes only run 1.
Runs == {1, 2}

\* for cls in [FatDisk, MkIsoFS, OVFTool, QEMUImg, VmdkTool]
HelperClasses == <<"FatDisk", "MkIsoFS", "OVFTool", "QEMUImg", "VmdkTool">>

\* helper.name of an instance of each class
HelperName(cls) ==
    CASE cls = "FatDisk"  -> "fatdisk"
      [] cls = "MkIsoFS"  -> "mkisofs"
      [] cls = "OVFTool"  -> "ovftool"
      [] cls = "QEMUImg"  -> "qemu-img"
      [] cls = "VmdkTool" -> "vmdktool"

Names == {HelperName(HelperClasses[i]) : i \in 1..Len(HelperClasses)}

\* Python's None
None == << >>

\* str(x) as format() applies it: the text of x, "None" for None
Str(x) == IF x = None THEN <<"None">> ELSE x

\* The version strings a helper may report: "1.1", "1.2", ...
Versions == {<<"1.", i>> : i \in 1..NumVersions}

\* The messages str(e) of a failed installation.
Details == {<<"detail ", i>> : i \in 1..NumDetails}

\* Where a helper found on the untouched host lives, and where an
\* installation puts it.
HostDir == "/usr/bin"

InstallDir == "/usr/local/bin"

\* A helper that is not on the search path.
Missing == [path |-> None, version |-> None]

\* A helper that is on the search path.
Present(dir, n, v) == [path |-> <<dir, n>>, version |-> v]

\* The hosts a first run may start on: each helper missing, or present in
\* HostDir with some version.
InitialHosts ==
    {[n \in Names |-> IF c[n] = None THEN Missing ELSE Present(HostDir, n, c[n])] :
        c \in [Names -> {None} \cup Versions]}

\* The helpers missing from host h.
Absent(h) == {n \in Names : h[n] = Missing}

\* except (NotImplementedError, HelperError, HelperNotFoundError)
CaughtExceptions == {"NotImplementedError", "HelperError", "HelperNotFoundError"}

\* Any other exception type an install step may raise.
OtherExceptions == {"RuntimeError"}

\* What helper.install_helper() may do: put the helper on the search path
\* and return, return although the helper is still not on the path, or
\* raise.
InstallOutcomes ==
    [kind : {"installed"}, version : Versions]
      \cup {[kind |-> "returned_absent"]}
      \cup [kind : {"raised"}, exc : CaughtExceptions \cup OtherExceptions,
            msg : Details]

\* helper.path: the probe of the search path
HelperPath(h, n) == h[n].path

\* helper.version
HelperVersion(h, n) == h[n].version

\* The host after install_helper() of helper n ended with outcome o.
HostAfterInstall(h, n, o) ==
    IF o.kind = "installed"
      THEN [h EXCEPT ![n] = Present(InstallDir, n, o.version)]
      ELSE h

(* ------------------------------------------------------------------ *)
(* Report entries                                                      *)
(* ------------------------------------------------------------------ *)

\* Mutant: the entry of a present helper leaves the version out.
PresentEntry_WithoutVersion(version, path) == <<"present at ", Str(path)>>

\* "version {0}, present at {1}".format(helper.version, str(helper.path))
PresentEntry(version, path) ==
    <<"version ", Str(version), ", present at ", Str(path)>>

\* "NOT FOUND"
NotFoundEntry == <<"NOT FOUND">>

\* "successfully installed to {0}, version {1}".format(str(helper.path), helper.version)
InstalledEntry(path, version) ==
    <<"successfully installed to ", Str(path), ", version ", Str(version)>>

\* "INSTALLATION FAILED: " + str(e)
FailedEntry(msg) == <<"INSTALLATION FAILED: ", msg>>

\* results[helper.name] = entry
SetResult(results, n, entry) == (n :> entry) @@ results

(* ------------------------------------------------------------------ *)
(* State of one run                                                    *)
(* ------------------------------------------------------------------ *)

\* A run that has not been started.  Besides the locals of run(), a run
\* keeps for each helper what the probe found (probe), the helper's status
\* in the terms of the specification's ToolState (status) and the number of
\* calls of install_helper() (attempts), and the type of the exception
\* raised in the run that the except clause does not name (foreign).
IdleRun ==
    [pc            |-> "idle",
     verify_only   |-> FALSE,
     ignore_errors |-> FALSE,
     idx           |-> 1,
     result        |-> TRUE,
     results       |-> << >>,
     keys          |-> << >>,
     k             |-> 1,
     out           |-> << >>,
     exit          |-> "none",
     probe         |-> [n \in Names |-> "none"],
     status        |-> [n \in Names |-> "not_checked"],
     attempts      |-> [n \in Names |-> 0],
     foreign       |-> "none"]

\* The state at the top of run(): result = True, results = {}
StartedRun(verify_only, ignore_errors) ==
    [IdleRun EXCEPT !.pc = "detect",
                    !.verify_only = verify_only,
                    !.ignore_errors = ignore_errors]

\* The helper the loop is at.
CurrentName(s) == HelperName(HelperClasses[s.idx])

\* Mutant: the loop starts over with the first class when it has dealt
\* with the last one.
Advance_StartsOver(s) ==
    IF s.idx < Len(HelperClasses)
      THEN [s EXCEPT !.pc = "detect", !.idx = s.idx + 1]
      ELSE [s EXCEPT !.pc = "detect", !.idx = 1]

\* The loop moves to the next class, or falls through to the report.
Advance(s) ==
    IF s.idx < Len(HelperClasses)
      THEN [s EXCEPT !.pc = "detect", !.idx = s.idx + 1]
      ELSE [s EXCEPT !.pc = "header"]

(* ------------------------------------------------------------------ *)
(* The loop over the helper classes                                    *)
(* ------------------------------------------------------------------ *)

\* helper = cls(); helper.path is probed
DetectStep(s, h) ==
    LET n == CurrentName(s) IN
    [s EXCEPT !.pc = "branch",
              !.probe[n] = IF HelperPath(h, n) # None THEN "present" ELSE "absent",
              !.status[n] = IF HelperPath(h, n) # None THEN "found" ELSE "not_found"]

\* Mutant: a helper that is present is installed again.
RecordPresent_Reinstalls(s, h, n) ==
    [s EXCEPT !.pc = "install",
              !.status[n] = "installing",
              !.attempts[n] = s.attempts[n] + 1]

\* if helper.path: the helper is reported as present
RecordPresent(s, h, n) ==
    Advance([s EXCEPT !.results =
                SetResult(s.results, n,
                          PresentEntry(HelperVersion(h, n), HelperPath(h, n)))])

\* Mutant: a helper missing in a verify-only run marks the run as failed.
RecordNotFound_MarksFailure(s, n) ==
    Advance([s EXCEPT !.results = SetResult(s.results, n, NotFoundEntry),
                      !.result = FALSE])

\* elif self.verify_only: the helper is reported as NOT FOUND
RecordNotFound(s, n) ==
    Advance([s EXCEPT !.results = SetResult(s.results, n, NotFoundEntry)])

\* else: try: helper.install_helper() is called
BeginInstall(s, n) ==
    [s EXCEPT !.pc = "install",
              !.status[n] = "installing",
              !.attempts[n] = s.attempts[n] + 1]

\* Mutant: outside verify-only mode every helper is installed, present or
\* not.
BranchStep_InstallsPresent(s, h) ==
    LET n == CurrentName(s) IN
    IF ~s.verify_only THEN BeginInstall(s, n)
    ELSE IF HelperPath(h, n) # None THEN RecordPresent(s, h, n)
    ELSE RecordNotFound(s, n)

\* Mutant: the verify_only test is missing.
BranchStep_IgnoresVerifyOnly(s, h) ==
    LET n == CurrentName(s) IN
    IF HelperPath(h, n) # None THEN RecordPresent(s, h, n)
    ELSE BeginInstall(s, n)

\* The if / elif / else on the probed helper.
BranchStep(s, h) ==
    LET n == CurrentName(s) IN
    IF HelperPath(h, n) # None THEN RecordPresent(s, h, n)
    ELSE IF s.verify_only THEN RecordNotFound(s, n)
    ELSE BeginInstall(s, n)

\* Mutant: a successful installation sets result back to True.
RecordInstalled_ResetsResult(s, h, n) ==
    Advance([s EXCEPT !.results =
                SetResult(s.results, n,
                          InstalledEntry(HelperPath(h, n), HelperVersion(h, n))),
                      !.result = TRUE,
                      !.status[n] = "installed"])

\* install_helper() returned: the helper is reported as installed, with
\* the path and version it has now
RecordInstalled(s, h, n) ==
    Advance([s EXCEPT !.results =
                SetResult(s.results, n,
                          InstalledEntry(HelperPath(h, n), HelperVersion(h, n))),
                      !.status[n] = "installed"])

\* Mutant: a failed installation ends the run at once.
RecordFailed_Aborts(s, n, msg) ==
    [s EXCEPT !.results = SetResult(s.results, n, FailedEntry(msg)),
              !.result = FALSE,
              !.status[n] = "install_failed",
              !.pc = "done",
              !.exit = "EnvironmentError"]

\* Mutant: with ignore_errors set a failed installation is not reported.
RecordFailed_HiddenWhenIgnored(s, n, msg) ==
    IF s.ignore_errors
      THEN Advance([s EXCEPT !.status[n] = "install_failed"])
      ELSE Advance([s EXCEPT !.results = SetResult(s.results, n, FailedEntry(msg)),
                             !.result = FALSE,
                             !.status[n] = "install_failed"])

\* Mutant: a helper whose installation failed is installed a second time.
RecordFailed_Retries(s, n, msg) ==
    IF s.attempts[n] < 2
      THEN [s EXCEPT !.pc = "install",
                     !.attempts[n] = s.attempts[n] + 1]
      ELSE Advance([s EXCEPT !.results = SetResult(s.results, n, FailedEntry(msg)),
                             !.result = FALSE,
                             !.status[n] = "install_failed"])

\* except (...) as e: the failure is reported and result = False
RecordFailed(s, n, msg) ==
    Advance([s EXCEPT !.results = SetResult(s.results, n, FailedEntry(msg)),
                      !.result = FALSE,
                      !.status[n] = "install_failed"])

\* An exception the except clause does not name leaves run() at once.
Propagate(s) == [s EXCEPT !.pc = "done", !.exit = "propagated"]

\* Mutant: the except clause does not name HelperNotFoundError.
IsCaught_WithoutNotFound(exc) == exc \in {"NotImplementedError", "HelperError"}

\* Mutant: the except clause catches every exception.
IsCaught_Everything(exc) == TRUE

\* Whether the except clause catches an exception of type exc.
IsCaught(exc) == exc \in CaughtExceptions

\* An exception of type exc was raised in run s.
NoteRaised(s, exc) ==
    IF exc \notin CaughtExceptions THEN [s EXCEPT !.foreign = exc] ELSE s

\* install_helper() ended with outcome o, h being the host it left.
InstallReturnStep(s, h, o) ==
    LET n == CurrentName(s) IN
    IF o.kind # "raised" THEN RecordInstalled(s, h, n)
    ELSE IF IsCaught(o.exc) THEN RecordFailed(NoteRaised(s, o.exc), n, o.msg)
    ELSE Propagate(NoteRaised(s, o.exc))

(* ------------------------------------------------------------------ *)
(* Inside install_helper(): prerequisites, the order of installation   *)
(* and the install strategies, after the specification (Dependency     *)
(* Resolver, Installer Strategy Set)                                   *)
(* ------------------------------------------------------------------ *)

\* The libraries and build tools a helper may require.
Libraries == {"make", "zlib"}

\* Everything that can be a prerequisite or be installed.
Items == Names \cup Libraries

\* The items in the order in which a set of prerequisites is gone through.
ItemSeq ==
    <<"fatdisk", "make", "mkisofs", "ovftool", "qemu-img", "vmdktool", "zlib">>

\* The place of item x in ItemSeq.
ItemRank(x) == CHOOSE i \in 1..Len(ItemSeq) : ItemSeq[i] = x

\* The first item of a non-empty set.
FirstItem(items) ==
    CHOOSE x \in items : \A y \in items : ItemRank(x) <= ItemRank(y)

\* Prerequisites of a tool set in which nothing requires anything.
NoPrereqs == [x \in Items |-> {}]

\* fatdisk is built with make, vmdktool is built with make and needs zlib.
ShippedPrereqs ==
    [NoPrereqs EXCEPT !["fatdisk"] = {"make"}, !["vmdktool"] = {"make", "zlib"}]

\* A prerequisite that has a prerequisite of its own.
ChainedPrereqs ==
    [NoPrereqs EXCEPT !["fatdisk"] = {"make"}, !["vmdktool"] = {"zlib"},
                      !["zlib"] = {"make"}]

\* A broken tool set: fatdisk requires vmdktool and vmdktool requires
\* fatdisk.
CyclicPrereqs ==
    [NoPrereqs EXCEPT !["fatdisk"] = {"vmdktool"}, !["vmdktool"] = {"fatdisk"}]

\* The prerequisites the descriptors of the tool set may declare.
PrereqConfigs == {ShippedPrereqs, ChainedPrereqs, CyclicPrereqs}

\* The state of the installer: the prerequisites the descriptors declare
\* (prereqs), the libraries on the host (libs), whether a closure is being
\* installed (phase), the install order the resolver returned (order) and
\* the place in it (pos), whether the resolver met a cycle (cycle), the
\* outcome of the item installed last (last), the strategies executed so
\* far (log) and the items that failed for an unmet prerequisite (unmet).
IdleInstaller(g, libs) ==
    [prereqs |-> g,
     libs    |-> libs,
     phase   |-> "idle",
     order   |-> << >>,
     pos     |-> 1,
     cycle   |-> FALSE,
     last    |-> [kind |-> "none"],
     log     |-> << >>,
     unmet   |-> {}]

\* The items with status found or installed: the libraries on the host
\* and the helpers on the search path.
Satisfied(h, i) == i.libs \cup {n \in Names : HelperPath(h, n) # None}

\* The items of an install order.
OrderItems(order) == {order[j] : j \in 1..Len(order)}

RECURSIVE Visit(_, _, _, _, _)
RECURSIVE VisitAll(_, _, _, _, _)

\* Depth-first visit of every item of a set of prerequisites.
VisitAll(g, items, path, acc, sat) ==
    IF items = {} THEN acc
    ELSE LET x == FirstItem(items)
             sub == Visit(g, x, path, acc, sat) IN
         VisitAll(g, items \ {x}, path, sub, sat)

\* Depth-first visit of item x: a satisfied item is skipped, an item on
\* the path of the visit is a cycle, any other item is put into the order
\* after its own prerequisites.
Visit(g, x, path, acc, sat) ==
    IF acc.cycle THEN acc
    ELSE IF x \in path THEN [acc EXCEPT !.cycle = TRUE]
    ELSE IF x \in sat \/ x \in OrderItems(acc.order) THEN acc
    ELSE LET sub == VisitAll(g, g[x], path \cup {x}, acc, sat) IN
         IF sub.cycle THEN sub
         ELSE [sub EXCEPT !.order = Append(sub.order, x)]

\* Mutant: the resolver puts an item before its prerequisites.
Resolve_DependentFirst(g, x, sat) ==
    LET r == Visit(g, x, {}, [order |-> << >>, cycle |-> FALSE], sat) IN
    [r EXCEPT !.order = [j \in 1..Len(r.order) |-> r.order[Len(r.order) + 1 - j]]]

\* Mutant: the resolver does not skip what is satisfied already.
Resolve_SkipsNothing(g, x, sat) ==
    Visit(g, x, {}, [order |-> << >>, cycle |-> FALSE], {})

\* resolve(descriptor, already_installed): the items to install for x, in
\* order, or the finding of a cycle
Resolve(g, x, sat) ==
    Visit(g, x, {}, [order |-> << >>, cycle |-> FALSE], sat)

\* Whether the declared prerequisites contain a cycle.
HasCycle(g) == \E n \in Names : Resolve(g, n, {}).cycle

\* The type of the configuration error a cycle is rejected with.
ConfigurationError == "ConfigurationError"

\* Mutant: the tool set is not validated when it is loaded.
LoadStep_NoValidation(s, g) == [s EXCEPT !.pc = "detect"]

\* The descriptors are loaded at startup: a cycle is a configuration
\* error, raised before the loop over the helpers begins.
LoadStep(s, g) ==
    IF HasCycle(g) THEN Propagate(NoteRaised(s, ConfigurationError))
    ELSE [s EXCEPT !.pc = "detect"]

\* The installer starts on the closure the resolver returned.
StartClosure(i, res) ==
    [i EXCEPT !.phase = "closure", !.order = res.order, !.pos = 1,
              !.cycle = res.cycle, !.last = [kind |-> "none"]]

\* The kind of install strategy of an item: ovftool cannot be installed
\* automatically.
Strategy(x) == IF x = "ovftool" THEN "manual" ELSE "automatic"

\* What executing the install strategy of an item may end in.
StrategyOutcomes ==
    [kind : {"installed"}, version : Versions]
      \cup [kind : {"raised"}, exc : {"HelperError"}, msg : Details]

\* The unmet-prerequisite error.
UnmetOutcome ==
    [kind |-> "raised", exc |-> "HelperNotFoundError",
     msg |-> <<"unmet prerequisite">>]

\* The no-installer-available error of a manual-only strategy.
ManualOutcome ==
    [kind |-> "raised", exc |-> "NotImplementedError",
     msg |-> <<"manual installation only">>]

\* The configuration error of a cycle met by the resolver.
CycleOutcome ==
    [kind |-> "raised", exc |-> ConfigurationError,
     msg |-> <<"dependency cycle">>]

\* The next item of the order is installed: it fails at once when one of
\* its prerequisites is not satisfied or when its strategy is manual-only,
\* otherwise its strategy is executed and ends with outcome o.
InstallItemStep(i, h, o) ==
    LET x == i.order[i.pos] IN
    IF ~(i.prereqs[x] \subseteq Satisfied(h, i))
      THEN [i EXCEPT !.pos = i.pos + 1,
                     !.unmet = i.unmet \cup {x},
                     !.last = UnmetOutcome]
    ELSE IF Strategy(x) = "manual"
      THEN [i EXCEPT !.pos = i.pos + 1, !.last = ManualOutcome]
    ELSE [i EXCEPT !.pos = i.pos + 1,
                   !.libs = IF o.kind = "installed" /\ x \in Libraries
                              THEN i.libs \cup {x} ELSE i.libs,
                   !.log = Append(i.log,
                                  [item |-> x,
                                   ok |-> o.kind = "installed",
                                   again |-> x \in Satisfied(h, i)]),
                   !.last = o]

\* How install_helper() ends once the closure is gone through: with the
\* outcome of the helper itself, the last item of the order.
ClosureOutcome(i) == IF i.cycle THEN CycleOutcome ELSE i.last

\* The installer is done with the closure.
EndClosure(i) ==
    [i EXCEPT !.phase = "idle", !.order = << >>, !.pos = 1, !.cycle = FALSE,
              !.last = [kind |-> "none"]]

(* ------------------------------------------------------------------ *)
(* The report                                                          *)
(* ------------------------------------------------------------------ *)

\* The code points of a helper name, as Python compares strings.
CodePoints(n) ==
    CASE n = "fatdisk"  -> <<102, 97, 116, 100, 105, 115, 107>>
      [] n = "mkisofs"  -> <<109, 107, 105, 115, 111, 102, 115>>
      [] n = "ovftool"  -> <<111, 118, 102, 116, 111, 111, 108>>
      [] n = "qemu-img" -> <<113, 101, 109, 117, 45, 105, 109, 103>>
      [] n = "vmdktool" -> <<118, 109, 100, 107, 116, 111, 111, 108>>

RECURSIVE LexLess(_, _)
\* a < b for two sequences of code points
LexLess(a, b) ==
    IF b = << >> THEN FALSE
    ELSE IF a = << >> THEN TRUE
    ELSE IF Head(a) # Head(b) THEN Head(a) < Head(b)
    ELSE LexLess(Tail(a), Tail(b))

\* Mutant: the names are compared the other way round.
NameLess_Reversed(a, b) == LexLess(CodePoints(b), CodePoints(a))

\* a < b for two helper names
NameLess(a, b) == LexLess(CodePoints(a), CodePoints(b))

\* sorted(keys): the key with i - 1 smaller keys comes at place i
Sorted(keys) ==
    [i \in 1..Cardinality(keys) |->
        CHOOSE a \in keys : Cardinality({b \in keys : NameLess(b, a)}) = i - 1]

\* "{0:13} {1}".format(k + ":", results[k])
ReportLine(key, entry) == <<key, ":">> \o entry

\* Mutant: the failure is raised before the report is printed.
HeaderStep_RaisesFirst(s) ==
    IF ~s.result /\ ~s.ignore_errors
      THEN [s EXCEPT !.pc = "done", !.exit = "EnvironmentError"]
      ELSE [s EXCEPT !.out = s.out \o << <<"Results:">>, <<"-------------">> >>,
                     !.keys = Sorted(DOMAIN s.results),
                     !.k = 1,
                     !.pc = IF DOMAIN s.results = {} THEN "footer" ELSE "lines"]

\* print("Results:"); print("-------------"); the for statement evaluates
\* sorted(results.keys())
HeaderStep(s) ==
    [s EXCEPT !.out = s.out \o << <<"Results:">>, <<"-------------">> >>,
              !.keys = Sorted(DOMAIN s.results),
              !.k = 1,
              !.pc = IF DOMAIN s.results = {} THEN "footer" ELSE "lines"]

\* One turn of: for k in sorted(results.keys()): print(...)
LineStep(s) ==
    LET key == s.keys[s.k] IN
    [s EXCEPT !.out = Append(s.out, ReportLine(key, s.results[key])),
              !.pc = IF s.k < Len(s.keys) THEN "lines" ELSE "footer",
              !.k = s.k + 1]

\* print("")
FooterStep(s) == [s EXCEPT !.out = Append(s.out, << >>), !.pc = "exit"]

\* Mutant: ignore_errors is not consulted.
ShouldRaise_IgnoresFlag(result, ignore_errors) == ~result

\* if not result and not self.ignore_errors
ShouldRaise(result, ignore_errors) == ~result /\ ~ignore_errors

\* raise EnvironmentError(1, "Unable to install some helpers"), or return
ExitStep(s) ==
    [s EXCEPT !.pc = "done",
              !.exit = IF ShouldRaise(s.result, s.ignore_errors)
                         THEN "EnvironmentError" ELSE "returned"]

(* ------------------------------------------------------------------ *)
(* Actions.  R is the set of runs that take the step together: one run  *)
(* in Spec and SpecTwice, both runs of a pair in SpecPair.              *)
(* ------------------------------------------------------------------ *)

AllAt(R, pc) == R # {} /\ \A r \in R : run[r].pc = pc

Detect(R) ==
    /\ AllAt(R, "detect")
    /\ run' = [r \in Runs |-> IF r \in R THEN DetectStep(run[r], host[r]) ELSE run[r]]
    /\ UNCHANGED <<host, inst>>

Branch(R) ==
    /\ AllAt(R, "branch")
    /\ run' = [r \in Runs |-> IF r \in R THEN BranchStep(run[r], host[r]) ELSE run[r]]
    /\ UNCHANGED <<host, inst>>

\* The install step of every run of R ends, with the same outcome.
InstallReturn(R) ==
    /\ AllAt(R, "install")
    /\ \E o \in InstallOutcomes :
         /\ host' = [r \in Runs |->
                       IF r \in R THEN HostAfterInstall(host[r], CurrentName(run[r]), o)
                                  ELSE host[r]]
         /\ run' = [r \in Runs |->
                       IF r \in R THEN InstallReturnStep(run[r], host'[r], o)
                                  ELSE run[r]]
    /\ UNCHANGED inst

PrintHeader(R) ==
    /\ AllAt(R, "header")
    /\ run' = [r \in Runs |-> IF r \in R THEN HeaderStep(run[r]) ELSE run[r]]
    /\ UNCHANGED <<host, inst>>

PrintLine(R) ==
    /\ AllAt(R, "lines")
    /\ run' = [r \in Runs |-> IF r \in R THEN LineStep(run[r]) ELSE run[r]]
    /\ UNCHANGED <<host, inst>>

PrintFooter(R) ==
    /\ AllAt(R, "footer")
    /\ run' = [r \in Runs |-> IF r \in R THEN FooterStep(run[r]) ELSE run[r]]
    /\ UNCHANGED <<host, inst>>

Exit(R) ==
    /\ AllAt(R, "exit")
    /\ run' = [r \in Runs |-> IF r \in R THEN ExitStep(run[r]) ELSE run[r]]
    /\ UNCHANGED <<host, inst>>

(* ------------------------------------------------------------------ *)
(* Spec: one run on an arbitrary host, with arbitrary flags             *)
(* ------------------------------------------------------------------ *)

Init ==
    /\ \E h \in InitialHosts : host = [r \in Runs |-> h]
    /\ \E v \in BOOLEAN, i \in BOOLEAN :
         run = [r \in Runs |-> IF r = 1 THEN StartedRun(v, i) ELSE IdleRun]
    /\ inst = IdleInstaller(ShippedPrereqs, Libraries)

Next ==
    \/ Detect({1})
    \/ Branch({1})
    \/ InstallReturn({1})
    \/ PrintHeader({1})
    \/ PrintLine({1})
    \/ PrintFooter({1})
    \/ Exit({1})

Spec == Init /\ [][Next]_vars

\* Every step of a run eventually completes: each probe and each install
\* step returns or raises, and the interpreter runs the next statement.
FairSpec == Spec /\ WF_vars(Next)

(* ------------------------------------------------------------------ *)
(* SpecTwice: the command is run a second time on the host as the      *)
(* first run left it                                                   *)
(* ------------------------------------------------------------------ *)

InitTwice ==
    /\ Init
    /\ Cardinality(Absent(host[1])) <= MaxAbsent

\* The command is invoked again once the first run is over.
RunAgain ==
    /\ run[1].pc = "done"
    /\ run[2].pc = "idle"
    /\ \E v \in BOOLEAN, i \in BOOLEAN :
         run' = [run EXCEPT ![2] = StartedRun(v, i)]
    /\ host' = [host EXCEPT ![2] = host[1]]
    /\ UNCHANGED inst

NextTwice ==
    \/ Next
    \/ RunAgain
    \/ Detect({2})
    \/ Branch({2})
    \/ InstallReturn({2})
    \/ PrintHeader({2})
    \/ PrintLine({2})
    \/ PrintFooter({2})
    \/ Exit({2})

SpecTwice == InitTwice /\ [][NextTwice]_vars

(* ------------------------------------------------------------------ *)
(* SpecPair: two runs on two identical hosts, whose install steps end  *)
(* with the same outcomes; the runs take their steps together          *)
(* ------------------------------------------------------------------ *)

InitPair ==
    /\ \E h \in InitialHosts : host = [r \in Runs |-> h]
    /\ \E v \in BOOLEAN, i \in BOOLEAN, j \in BOOLEAN :
         run = [r \in Runs |-> IF r = 1 THEN StartedRun(v, i) ELSE StartedRun(v, j)]
    /\ inst = IdleInstaller(ShippedPrereqs, Libraries)

NextPair ==
    \/ Detect(Runs)
    \/ Branch(Runs)
    \/ InstallReturn(Runs)
    \/ PrintHeader(Runs)
    \/ PrintLine(Runs)
    \/ PrintFooter(Runs)
    \/ Exit(Runs)

SpecPair == InitPair /\ [][NextPair]_vars

(* ------------------------------------------------------------------ *)
(* SpecDeps: one run in which install_helper() resolves and installs   *)
(* the prerequisites of the helper before the helper itself            *)
(* ------------------------------------------------------------------ *)

LoadDescriptors ==
    /\ run[1].pc = "load"
    /\ run' = [run EXCEPT ![1] = LoadStep(run[1], inst.prereqs)]
    /\ UNCHANGED <<host, inst>>

ResolveClosure ==
    /\ run[1].pc = "install"
    /\ inst.phase = "idle"
    /\ inst' = StartClosure(inst, Resolve(inst.prereqs, CurrentName(run[1]),
                                          Satisfied(host[1], inst)))
    /\ UNCHANGED <<run, host>>

InstallNext ==
    /\ run[1].pc = "install"
    /\ inst.phase = "closure"
    /\ ~inst.cycle
    /\ inst.pos <= Len(inst.order)
    /\ \E o \in StrategyOutcomes : inst' = InstallItemStep(inst, host[1], o)
    /\ UNCHANGED <<run, host>>

\* install_helper() returns or raises.
CompleteInstall ==
    /\ run[1].pc = "install"
    /\ inst.phase = "closure"
    /\ inst.cycle \/ inst.pos > Len(inst.order)
    /\ host' = [host EXCEPT ![1] = HostAfterInstall(host[1], CurrentName(run[1]),
                                                    ClosureOutcome(inst))]
    /\ run' = [run EXCEPT ![1] = InstallReturnStep(run[1], host'[1],
                                                   ClosureOutcome(inst))]
    /\ inst' = EndClosure(inst)

InitDeps ==
    /\ \E h \in InitialHosts : host = [r \in Runs |-> h]
    /\ \E v \in BOOLEAN, i \in BOOLEAN :
         run = [r \in Runs |->
                  IF r = 1 THEN [StartedRun(v, i) EXCEPT !.pc = "load"] ELSE IdleRun]
    /\ \E g \in PrereqConfigs, libs \in SUBSET Libraries :
         inst = IdleInstaller(g, libs)

NextDeps ==
    \/ LoadDescriptors
    \/ Detect({1})
    \/ Branch({1})
    \/ ResolveClosure
    \/ InstallNext
    \/ CompleteInstall
    \/ PrintHeader({1})
    \/ PrintLine({1})
    \/ PrintFooter({1})
    \/ Exit({1})

SpecDeps == InitDeps /\ [][NextDeps]_vars

(* ------------------------------------------------------------------ *)
(* Properties                                                          *)
(* ------------------------------------------------------------------ *)

\* The loop of run s is over and the run has reached its report.
AtReport(s) ==
    \/ s.pc \in {"header", "lines", "footer", "exit"}
    \/ s.pc = "done" /\ s.exit # "propagated"

\* Run s has reached the end of run(): the test that decides how it exits.
AtEnd(s) == s.pc = "done" /\ s.exit # "propagated"

\* C1: a run that reaches its end raises EnvironmentError if and only if
\* result is False and ignore_errors is not set; in every other case it
\* returns normally, whatever the entries of the helpers are.
C1_RaisesIffFailedAndNotIgnored ==
    \A r \in Runs :
      AtEnd(run[r]) =>
        /\ run[r].exit \in {"EnvironmentError", "returned"}
        /\ run[r].exit = "EnvironmentError"
             <=> (~run[r].result /\ ~run[r].ignore_errors)

\* A run has raised EnvironmentError after one installation failed and
\* another helper was found.
C1_Witness ==
    \E r \in Runs :
      /\ AtEnd(run[r]) /\ run[r].exit = "EnvironmentError"
      /\ \E n \in Names : run[r].status[n] = "install_failed"
      /\ \E n \in Names : run[r].status[n] = "found"

\* C2 as stated: in a verify-only run every helper the probe finds absent
\* gets the entry "NOT FOUND", and result is False as soon as one helper
\* is absent.
C2_Original ==
    \A r \in Runs :
      run[r].verify_only /\ AtReport(run[r]) =>
        /\ \A n \in Names :
             run[r].probe[n] = "absent" => run[r].results[n] = <<"NOT FOUND">>
        /\ (\E n \in Names : run[r].probe[n] = "absent") => ~run[r].result

\* C2, amended: in a verify-only run every helper the probe finds absent
\* gets the entry "NOT FOUND", and result stays True: absent helpers do not
\* make a verify-only run fail, it returns normally.
C2_NotFoundLeavesResultTrue ==
    \A r \in Runs :
      run[r].verify_only /\ AtReport(run[r]) =>
        /\ \A n \in Names :
             /\ run[r].probe[n] = "absent" <=> host[r][n] = Missing
             /\ run[r].probe[n] = "absent" => run[r].results[n] = <<"NOT FOUND">>
        /\ run[r].result
        /\ run[r].pc = "done" => run[r].exit = "returned"

\* A verify-only run has returned with two helpers absent.
C2_Witness ==
    \E r \in Runs :
      /\ run[r].verify_only /\ run[r].pc = "done"
      /\ Cardinality({n \in Names : run[r].probe[n] = "absent"}) >= 2

\* C3: in an install-mode run, a helper whose installation failed has an
\* "INSTALLATION FAILED: <detail>" entry and result is False from then on,
\* in particular at the end of the run, whatever happens to the helpers
\* processed before or after it.
C3_FailedInstallIsReportedAndKept ==
    \A r \in Runs : \A n \in Names :
      ~run[r].verify_only /\ run[r].status[n] = "install_failed" =>
        /\ n \in DOMAIN run[r].results
        /\ \E d \in Details : run[r].results[n] = <<"INSTALLATION FAILED: ", d>>
        /\ ~run[r].result

\* A run is at its end in which the installation of ovftool failed, a
\* helper before it was installed and a helper after it was installed.
C3_Witness ==
    \E r \in Runs :
      /\ AtEnd(run[r]) /\ ~run[r].verify_only
      /\ run[r].status["ovftool"] = "install_failed"
      /\ run[r].status["fatdisk"] = "installed"
      /\ run[r].status["vmdktool"] = "installed"
      /\ run[r].status["qemu-img"] = "found"

\* C4: install_helper() is never called for a helper the probe found
\* present, whatever verify_only and ignore_errors are.
C4_PresentNeverInstalled ==
    \A r \in Runs : \A n \in Names :
      run[r].probe[n] = "present" =>
        /\ run[r].attempts[n] = 0
        /\ run[r].status[n] = "found"

\* An install-mode run is over in which a helper was present and another
\* one was installed.
C4_Witness ==
    \E r \in Runs :
      /\ run[r].pc = "done" /\ ~run[r].verify_only
      /\ \E n \in Names : run[r].probe[n] = "present"
      /\ \E n \in Names : run[r].attempts[n] = 1

\* C5: with verify_only set no install step is ever entered, for present
\* and for absent helpers, with or without ignore_errors.
C5_VerifyOnlyNeverInstalls ==
    \A r \in Runs :
      run[r].verify_only =>
        /\ run[r].pc # "install"
        /\ \A n \in Names :
             /\ run[r].attempts[n] = 0
             /\ run[r].status[n] \in {"not_checked", "found", "not_found"}

\* A run with verify_only and ignore_errors both set is over, with an
\* absent and a present helper.
C5_Witness ==
    \E r \in Runs :
      /\ run[r].pc = "done" /\ run[r].verify_only /\ run[r].ignore_errors
      /\ \E n \in Names : run[r].probe[n] = "absent"
      /\ \E n \in Names : run[r].probe[n] = "present"

\* The statuses a helper ends in when it was found or its installation
\* was carried through.
Terminal == {"found", "installed", "install_failed"}

\* Run s is over and every helper was probed, every absent helper got its
\* one install attempt, and every helper has a terminal status.
AllProcessed(s) ==
    /\ s.pc = "done"
    /\ \A n \in Names :
         /\ s.probe[n] # "none"
         /\ s.probe[n] = "absent" => s.attempts[n] = 1
         /\ s.status[n] \in Terminal

LinesOf(s, n) ==
    {j \in 1..Len(s.out) :
        IF Len(s.out[j]) >= 2 THEN s.out[j][1] = n ELSE FALSE}

\* The output of run s holds, for every helper, exactly one line, and that
\* line is the helper's entry.
OneLinePerHelper(s) ==
    \A n \in Names :
      /\ n \in DOMAIN s.results
      /\ Cardinality(LinesOf(s, n)) = 1
      /\ \A j \in LinesOf(s, n) : s.out[j] = <<n, ":">> \o s.results[n]

C8_IgnoreErrorsOnlyChangesExit ==
    (/\ run[1].pc # "idle" /\ run[2].pc # "idle"
     /\ ~run[1].verify_only /\ ~run[2].verify_only
     /\ ~run[1].ignore_errors /\ run[2].ignore_errors) =>
        /\ run[1].pc = run[2].pc
        /\ run[1].results = run[2].results
        /\ run[1].result = run[2].result
        /\ run[1].out = run[2].out
        /\ \/ run[1].exit = run[2].exit
           \/ /\ run[1].exit = "EnvironmentError"
              /\ run[2].exit = "returned"
              /\ ~run[1].result

\* The two runs of such a pair are over, with a failed installation in
\* their reports and different exits.
C8_Witness ==
    /\ run[1].pc = "done" /\ run[2].pc = "done"
    /\ ~run[1].verify_only /\ ~run[2].verify_only
    /\ ~run[1].ignore_errors /\ run[2].ignore_errors
    /\ run[1].exit = "EnvironmentError" /\ run[2].exit = "returned"
    /\ \E n \in Names : run[2].status[n] = "install_failed"
    /\ \E n \in Names : run[2].status[n] = "installed"
    /\ Len(run[2].out) = Len(HelperClasses) + 3

\* C9: when the first of two consecutive runs finds every helper present,
\* the second run prints the same report as the first, and install_helper()
\* is called in neither.
C9_SecondRunRepeatsFirst ==
    (/\ run[1].pc = "done" /\ run[2].pc = "done"
     /\ \A n \in Names : run[1].probe[n] = "present") =>
        /\ run[1].results = run[2].results
        /\ run[1].out = run[2].out
        /\ Len(run[2].out) = Len(HelperClasses) + 3
        /\ host[2] = host[1]
        /\ \A r \in Runs : \A n \in Names : run[r].attempts[n] = 0

\* Both runs are over and the first found every helper present.
C9_Witness ==
    /\ run[1].pc = "done" /\ run[2].pc = "done"
    /\ \A n \in Names : run[1].probe[n] = "present"
    /\ run[1].verify_only /\ ~run[2].verify_only

LineName(line) == line[1]

\* The report lines run s has printed so far: what follows the header and
\* the separator, the closing empty line left out.
ReportLines(s) ==
    SelectSeq(SubSeq(s.out, 3, Len(s.out)), LAMBDA line : line # << >>)

\* C11: whatever a run has printed starts with the header line and the
\* separator line, and the report lines that follow them are in strictly
\* ascending order of helper name (compared by code points), whatever the
\* order in which the loop filled results.
C11_LinesInAscendingNameOrder ==
    \A r \in Runs :
      LET s == run[r]
          lines == ReportLines(s) IN
      /\ Len(s.out) >= 1 => s.out[1] = <<"Results:">>
      /\ Len(s.out) >= 2 => s.out[2] = <<"-------------">>
      /\ \A i \in 1..Len(lines), j \in 1..Len(lines) :
           i < j => LexLess(CodePoints(LineName(lines[i])),
                            CodePoints(LineName(lines[j])))
      /\ s.pc \in {"footer", "exit"} \/ AtEnd(s) =>
           {LineName(lines[i]) : i \in 1..Len(lines)} = DOMAIN s.results

\* A finished run whose report has one line per helper, "fatdisk" first,
\* "qemu-img" before "vmdktool".
C11_Witness ==
    /\ AtEnd(run[1])
    /\ Len(ReportLines(run[1])) = Cardinality(Names)
    /\ LineName(ReportLines(run[1])[1]) = "fatdisk"
    /\ LineName(ReportLines(run[1])[4]) = "qemu-img"
    /\ LineName(ReportLines(run[1])[5]) = "vmdktool"

\* The moves of a helper's status the claim allows.
StatusMoves ==
    { <<"not_checked", "found">>, <<"not_checked", "not_found">>,
      <<"not_found", "installing">>,
      <<"installing", "installed">>, <<"installing", "install_failed">> }

\* C16: every step changes the status of a helper only along
\* not_checked -> {found, not_found} -> installing -> {installed,
\* install_failed}; installing is entered only from not_found and only
\* outside verify-only mode, so found, installed, install_failed and, in
\* verify-only mode, not_found are never left; and the install step of a
\* helper is entered at most once in a run.
C16_StatusOnlyMovesForward ==
    [][\A r \in Runs, n \in Names :
         LET a == run[r].status[n]
             b == run'[r].status[n] IN
         /\ a # b => <<a, b>> \in StatusMoves
         /\ a # b /\ b = "installing" => ~run[r].verify_only
         /\ run'[r].attempts[n] > run[r].attempts[n] =>
               /\ run[r].attempts[n] = 0
               /\ a = "not_found" /\ b = "installing"
         /\ run'[r].attempts[n] <= 1]_vars

\* A finished run in which one helper was found, one was installed and the
\* installation of one failed.
C16_Witness ==
    /\ run[1].pc = "done"
    /\ \E a \in Names, b \in Names, c \in Names :
         /\ run[1].status[a] = "found"
         /\ run[1].status[b] = "installed" /\ run[1].attempts[b] = 1
         /\ run[1].status[c] = "install_failed" /\ run[1].attempts[c] = 1

\* The resolved path of helper n in run r: nothing before the helper is
\* probed, then what helper.path gives.
ResolvedPath(r, n) ==
    IF run[r].probe[n] = "none" THEN None ELSE HelperPath(host[r], n)

\* C17: in every reachable state the resolved path of a helper is
\* non-empty if and only if its status is found or installed; a helper is
\* recorded as installed only when it is found after its install step.
C17_PathIffFoundOrInstalled ==
    \A r \in Runs, n \in Names :
      /\ ResolvedPath(r, n) # None <=> run[r].status[n] \in {"found", "installed"}
      /\ (n \in DOMAIN run[r].results
            /\ run[r].results[n][1] = "successfully installed to ")
           => HelperPath(host[r], n) # None

\* The helpers the loop of run s comes to after the one it is at.
Remaining(s) ==
    {HelperName(HelperClasses[i]) : i \in (s.idx + 1)..Len(HelperClasses)}

\* C18: once an install step has raised an exception that is neither a
\* NotImplementedError nor a HelperError nor a HelperNotFoundError, run()
\* is over with that exception: no entry is made for the helper, the
\* helpers after it are never probed or installed, and nothing is
\* printed, neither the header nor a line for any helper.  Nothing else
\* ends run() in this way.
C18_ForeignExceptionPropagates ==
    \A r \in Runs :
      LET s == run[r] IN
      /\ s.foreign # "none" =>
            /\ s.pc = "done" /\ s.exit = "propagated"
            /\ s.out = << >>
            /\ CurrentName(s) \notin DOMAIN s.results
            /\ s.status[CurrentName(s)] = "installing"
            /\ \A n \in Remaining(s) :
                  /\ s.probe[n] = "none" /\ s.attempts[n] = 0
                  /\ n \notin DOMAIN s.results
      /\ s.exit = "propagated" => s.foreign \in OtherExceptions

\* A run that a foreign exception has left while helpers remained, after
\* at least one helper had been dealt with.
C18_Witness ==
    /\ run[1].foreign # "none"
    /\ run[1].pc = "done"
    /\ run[1].idx > 1
    /\ Remaining(run[1]) # {}

\* Run s is over by a normal return or by the EnvironmentError of its last
\* statement, and its loop has dealt with every helper of the set.
EndedAfterAllHelpers(s) ==
    /\ s.pc = "done"
    /\ s.exit \in {"returned", "EnvironmentError"}
    /\ s.idx = Len(HelperClasses)
    /\ \A n \in Names :
         /\ s.probe[n] # "none"
         /\ s.attempts[n] <= 1
         /\ n \in DOMAIN s.results

\* Run s is over because an install step raised an exception the except
\* clause does not name; the helpers after that one were not dealt with.
EndedByForeignException(s) ==
    /\ s.pc = "done"
    /\ s.exit = "propagated"
    /\ s.foreign # "none"
    /\ s.status[CurrentName(s)] = "installing"
    /\ \A n \in Remaining(s) : s.probe[n] = "none"

Executions(x) == {k \in 1..Len(inst.log) : inst.log[k].item = x}

\* C12: in the order the resolver returns every prerequisite of an item
\* stands before the item, unless it is left out because it is satisfied,
\* and the helper asked for stands last; and whenever the install
\* strategy of an item was executed, each of its prerequisites either had
\* its own installation completed earlier in the run or was on the host
\* from the start.
C12_PrerequisitesComeFirst ==
    /\ \A j \in 1..Len(inst.order) :
         \A p \in inst.prereqs[inst.order[j]] :
           \/ \E k \in 1..(j - 1) : inst.order[k] = p
           \/ /\ p \notin OrderItems(inst.order)
              /\ p \in Satisfied(host[1], inst)
    /\ inst.phase = "closure" /\ ~inst.cycle =>
         /\ inst.order # << >>
         /\ inst.order[Len(inst.order)] = CurrentName(run[1])
    /\ \A k \in 1..Len(inst.log) :
         \A p \in inst.prereqs[inst.log[k].item] :
           \/ \E e \in Executions(p) : e < k
           \/ Executions(p) = {} /\ p \in Satisfied(host[1], inst)

\* vmdktool was installed after zlib, and zlib after make, which it
\* requires.
C12_Witness ==
    /\ inst.prereqs["zlib"] = {"make"}
    /\ \E a \in Executions("make"), b \in Executions("zlib"),
          c \in Executions("vmdktool") :
         a < b /\ b < c /\ inst.log[c].ok
    /\ run[1].status["vmdktool"] = "installed"

Installations(x) == {k \in Executions(x) : inst.log[k].ok}

\* C15: in one run no item is installed more than once, whichever helpers
\* require it: no strategy is executed for an item that is on the host or
\* was installed earlier in the run, and the order the resolver returned
\* holds no such item.
C15_SharedPrerequisiteInstalledOnce ==
    /\ \A x \in Items :
         /\ Cardinality(Installations(x)) <= 1
         /\ \A k \in Installations(x) : \A e \in Executions(x) : e <= k
    /\ \A k \in 1..Len(inst.log) : ~inst.log[k].again
    /\ \A j \in inst.pos..Len(inst.order) :
         inst.order[j] \notin Satisfied(host[1], inst)

\* fatdisk and vmdktool both require make: make was installed for
\* fatdisk, and vmdktool was installed later in the run without make
\* being installed again.
C15_Witness ==
    /\ "make" \in inst.prereqs["fatdisk"] \cap inst.prereqs["vmdktool"]
    /\ Cardinality(Executions("make")) = 1
    /\ \E a \in Installations("make"), b \in Installations("fatdisk"),
          c \in Installations("vmdktool") : a < b /\ b < c
    /\ run[1].pc = "done"

====
